---- MODULE Spec2Model ----
(***************************************************************************)
(* nvrhi::OffsetAllocator (src/src/common/offset-allocator.cpp)            *)
(*                                                                         *)
(* The allocator object is modelled field by field.  Every member function *)
(* is a pure operator from an allocator record to an allocator record (and *)
(* a return value), written statement by statement after the C++; the      *)
(* actions apply these operators to the current object.                    *)
(***************************************************************************)
EXTENDS Integers, Sequences, FiniteSets, TLC

(***************************************************************************)
(* Bounds of the model.                                                    *)
(***************************************************************************)
\* largest maxAllocs given to the constructor (0..MaxAllocsBound)
MaxAllocsBound == 2
\* largest region size given to reset
MaxRegion == 17
\* longest run of calls of the scenario specification
MaxSteps == 5
\* the sizes 0..MaxInput are all given to the size-class codec
MaxInput == 40

(***************************************************************************)
(* Program constants.  TLC's integers are 32-bit signed, so a uint32 is    *)
(* represented by the int32 that has the same bit pattern: 0xffffffff is   *)
(* -1, 0x80000000 is INT_MIN.  Add32 and Sub32 wrap as the hardware does.  *)
(***************************************************************************)
NO_SPACE == -1
UNUSED == -1
SMALL_FLT_MANTISSA_BITS == 3
SMALL_FLT_MANTISSA_VALUE == 8
SMALL_FLT_MANTISSA_MASK == 7
NUM_TOP_BINS == 32
BINS_PER_LEAF == 8
TOP_BINS_INDEX_SHIFT == 3
LEAF_BINS_INDEX_MASK == 7
NUM_LEAF_BINS == 256

(***************************************************************************)
(* 32-bit unsigned arithmetic and bit operations.                          *)
(***************************************************************************)
INT_MAX == 2147483647

INT_MIN == (-INT_MAX) - 1

\* 1 << n as a bit pattern, 0 <= n <= 31
Pow2(n) == IF n = 31 THEN INT_MIN ELSE 2 ^ n

\* the low 31 bits of v
Low31(v) == IF v < 0 THEN (v + INT_MAX) + 1 ELSE v

\* a + b modulo 2^32
Add32(a, b) ==
    IF a >= 0 /\ b >= 0 /\ a > INT_MAX - b THEN (a + INT_MIN) + (b + INT_MIN)
    ELSE IF a < 0 /\ b < 0 /\ a < INT_MIN - b THEN Low31(a) + Low31(b)
    ELSE a + b

\* a - b modulo 2^32
Sub32(a, b) == IF b = INT_MIN THEN Add32(a, INT_MIN) ELSE Add32(a, -b)

\* a < b, unsigned
Less32(a, b) == IF (a < 0) = (b < 0) THEN a < b ELSE b < 0

\* v >> n, 0 <= n <= 31
Shr(v, n) == IF n = 0 THEN v
             ELSE IF n = 31 THEN (IF v < 0 THEN 1 ELSE 0)
             ELSE (Low31(v) \div (2 ^ n)) + (IF v < 0 THEN 2 ^ (31 - n) ELSE 0)

\* v & ((1 << n) - 1), 0 <= n <= 31
LowBits(v, n) == Low31(v) % (2 ^ n)

\* (v >> i) & 1
Bit(v, i) == Shr(v, i) % 2

\* v | (1 << i)
OrBit(v, i) == IF Bit(v, i) = 1 THEN v ELSE v + Pow2(i)

\* v & ~(1 << i)
AndNotBit(v, i) == IF Bit(v, i) = 1 THEN v - Pow2(i) ELSE v

\* v << n modulo 2^32, for v < 2^31 and 0 <= n <= 31
Shl(v, n) == IF n = 0 THEN v
             ELSE ((v % (2 ^ (31 - n))) * (2 ^ n))
                  + (IF Bit(v, 31 - n) = 1 THEN INT_MIN ELSE 0)

\* position of the highest set bit of v # 0
HighestSetBit(v) ==
    IF v < 0 THEN 31
    ELSE CHOOSE i \in 0..30 : 2 ^ i <= v /\ (i = 30 \/ v < 2 ^ (i + 1))

lzcnt_nonzero(v) == 31 - HighestSetBit(v)

\* position of the lowest set bit of v # 0
tzcnt_nonzero(v) == CHOOSE i \in 0..31 : Bit(v, i) = 1 /\ LowBits(v, i) = 0

(***************************************************************************)
(* Size-class codec.                                                       *)
(***************************************************************************)
uintToSmallFloatRoundUp(size) ==
    IF Less32(size, SMALL_FLT_MANTISSA_VALUE)
    THEN size
    ELSE LET leadingZeros == lzcnt_nonzero(size)
             highestSetBit == 31 - leadingZeros
             mantissaStartBit == highestSetBit - SMALL_FLT_MANTISSA_BITS
             exp == mantissaStartBit + 1
             mantissa == Shr(size, mantissaStartBit) % (SMALL_FLT_MANTISSA_MASK + 1)
             lowBitsMasked == LowBits(size, mantissaStartBit)
             rounded == IF lowBitsMasked # 0 THEN mantissa + 1 ELSE mantissa
         IN  Shl(exp, SMALL_FLT_MANTISSA_BITS) + rounded

uintToSmallFloatRoundDown(size) ==
    IF Less32(size, SMALL_FLT_MANTISSA_VALUE)
    THEN size
    ELSE LET leadingZeros == lzcnt_nonzero(size)
             highestSetBit == 31 - leadingZeros
             mantissaStartBit == highestSetBit - SMALL_FLT_MANTISSA_BITS
             exp == mantissaStartBit + 1
             mantissa == Shr(size, mantissaStartBit) % (SMALL_FLT_MANTISSA_MASK + 1)
         IN  Shl(exp, SMALL_FLT_MANTISSA_BITS) + mantissa

smallFloatToUint(floatValue) ==
    LET exponent == Shr(floatValue, SMALL_FLT_MANTISSA_BITS)
        mantissa == floatValue % (SMALL_FLT_MANTISSA_MASK + 1)
    IN  IF exponent = 0
        THEN mantissa
        ELSE Shl(mantissa + SMALL_FLT_MANTISSA_VALUE, exponent - 1)

\* faulty variant: the bits below startBitIndex are not masked off
findLowestSetBitAfter_NoMask(bitMask, startBitIndex) ==
    IF bitMask = 0 THEN NO_SPACE ELSE tzcnt_nonzero(bitMask)

\* lowest set bit of bitMask at or after startBitIndex, or NO_SPACE
\* (startBitIndex <= 30: the bin indices of the sizes below 0xF0000000)
findLowestSetBitAfter(bitMask, startBitIndex) ==
    LET bitsAfter == Sub32(bitMask, LowBits(bitMask, startBitIndex))
    IN  IF bitsAfter = 0 THEN NO_SPACE ELSE tzcnt_nonzero(bitsAfter)

(***************************************************************************)
(* The allocator object.                                                   *)
(***************************************************************************)
VARIABLES
    m_size,         \* uint32: size of the region set by the last effective reset
    m_maxAllocs,    \* uint32: constructor argument
    m_freeStorage,  \* uint32: running counter of free space
    m_usedBinsTop,  \* uint32: one bit per group of 8 bins
    m_usedBins,     \* uint8[NUM_TOP_BINS]: one bit per bin of the group
    m_binIndices,   \* NodeIndex[NUM_LEAF_BINS]: head of each bin's list
    m_nodes,        \* Node[m_maxAllocs + 1], or NullPtr before the first reset
    m_freeNodes,    \* NodeIndex[m_maxAllocs + 1], or NullPtr
    m_freeOffset,   \* uint32: index of the top of the stack m_freeNodes
    fault,          \* an array was indexed outside its bounds
    handles,        \* the Allocs returned by allocate and not yet given to free,
                    \* each with the size that was asked for
    ret,            \* the Alloc returned by the last call, if it was allocate
    hist            \* the calls made since the last effective reset, that reset
                    \* included
                    \* (ret and hist are recorded by the specifications
                    \* SpecScn and SpecCodec only)

allocVars == <<m_size, m_maxAllocs, m_freeStorage, m_usedBinsTop, m_usedBins,
               m_binIndices, m_nodes, m_freeNodes, m_freeOffset, fault>>

vars == <<m_size, m_maxAllocs, m_freeStorage, m_usedBinsTop, m_usedBins,
          m_binIndices, m_nodes, m_freeNodes, m_freeOffset, fault,
          handles, ret, hist>>

NullPtr == [i \in {} |-> 0]

IsNull(p) == DOMAIN p = {}

\* struct Node, default member initialisers
Node == [dataOffset |-> 0, dataSize |-> 0,
         binListPrev |-> UNUSED, binListNext |-> UNUSED,
         neighborPrev |-> UNUSED, neighborNext |-> UNUSED,
         used |-> FALSE]

\* Node(dataOffset, dataSize, binListNext)
NodeCtor(dataOffset, dataSize, binListNext) ==
    [Node EXCEPT !.dataOffset = dataOffset, !.dataSize = dataSize,
                 !.binListNext = binListNext]

\* struct Alloc, default member initialisers: the sentinel
Alloc == [offset |-> NO_SPACE, metadata |-> NO_SPACE]

\* struct StorageReport, default member initialisers
StorageReport == [totalFreeSpace |-> 0, largestFreeRegion |-> 0]

\* the object as one record
Self == [m_size |-> m_size, m_maxAllocs |-> m_maxAllocs,
         m_freeStorage |-> m_freeStorage, m_usedBinsTop |-> m_usedBinsTop,
         m_usedBins |-> m_usedBins, m_binIndices |-> m_binIndices,
         m_nodes |-> m_nodes, m_freeNodes |-> m_freeNodes,
         m_freeOffset |-> m_freeOffset, fault |-> fault]

Install(a) ==
    /\ m_size' = a.m_size
    /\ m_maxAllocs' = a.m_maxAllocs
    /\ m_freeStorage' = a.m_freeStorage
    /\ m_usedBinsTop' = a.m_usedBinsTop
    /\ m_usedBins' = a.m_usedBins
    /\ m_binIndices' = a.m_binIndices
    /\ m_nodes' = a.m_nodes
    /\ m_freeNodes' = a.m_freeNodes
    /\ m_freeOffset' = a.m_freeOffset
    /\ fault' = a.fault

\* OffsetAllocator(maxAllocs).  m_usedBinsTop, m_usedBins and m_binIndices are
\* left uninitialised by the constructor: junk is what they happen to hold.
Construct(maxAllocs, junk) ==
    [m_size |-> 0, m_maxAllocs |-> maxAllocs, m_freeStorage |-> 0,
     m_usedBinsTop |-> junk.top,
     m_usedBins |-> [i \in 0..(NUM_TOP_BINS - 1) |-> junk.leaf],
     m_binIndices |-> [i \in 0..(NUM_LEAF_BINS - 1) |-> junk.head],
     m_nodes |-> NullPtr, m_freeNodes |-> NullPtr, m_freeOffset |-> 0,
     fault |-> FALSE]

(***************************************************************************)
(* insertNodeIntoBin(size, dataOffset): [a |-> the object after, nodeIndex]*)
(***************************************************************************)
\* the body of insertNodeIntoBin once binIndex is computed
insertNodeIntoBinAt(a, size, dataOffset, binIndex) ==
    LET topBinIndex == Shr(binIndex, TOP_BINS_INDEX_SHIFT)
        leafBinIndex == binIndex % (LEAF_BINS_INDEX_MASK + 1)
        \* take a freelist node and insert on top of the bin's list
        topNodeIndex == a.m_binIndices[binIndex]
        inBounds == a.m_freeOffset \in DOMAIN a.m_freeNodes
        nodeIndex == IF inBounds THEN a.m_freeNodes[a.m_freeOffset] ELSE 0
    IN  [a |-> [a EXCEPT
                  \* bin was empty before: set the bin mask bits
                  !.m_usedBins = IF topNodeIndex = UNUSED
                                 THEN [@ EXCEPT ![topBinIndex] = OrBit(@, leafBinIndex)]
                                 ELSE @,
                  !.m_usedBinsTop = IF topNodeIndex = UNUSED
                                    THEN OrBit(@, topBinIndex)
                                    ELSE @,
                  !.m_freeOffset = Sub32(@, 1),
                  !.m_nodes = IF topNodeIndex # UNUSED
                              THEN [@ EXCEPT ![nodeIndex] =
                                                 NodeCtor(dataOffset, size, topNodeIndex),
                                             ![topNodeIndex].binListPrev = nodeIndex]
                              ELSE [@ EXCEPT ![nodeIndex] =
                                                 NodeCtor(dataOffset, size, topNodeIndex)],
                  !.m_binIndices = [@ EXCEPT ![binIndex] = nodeIndex],
                  !.m_freeStorage = Add32(@, size),
                  !.fault = @ \/ ~inBounds],
         nodeIndex |-> nodeIndex]

insertNodeIntoBin(a, size, dataOffset) ==
    insertNodeIntoBinAt(a, size, dataOffset, uintToSmallFloatRoundDown(size))

(***************************************************************************)
(* removeNodeFromBin(nodeIndex): the object after                          *)
(***************************************************************************)
\* easy case: the node has a previous node; remove it from the middle
unlinkFromMiddle(a, node) ==
    [a EXCEPT !.m_nodes =
        IF node.binListNext # UNUSED
        THEN [@ EXCEPT ![node.binListPrev].binListNext = node.binListNext,
                       ![node.binListNext].binListPrev = node.binListPrev]
        ELSE [@ EXCEPT ![node.binListPrev].binListNext = node.binListNext]]

\* hard case: the node is the first of bin binIndex
unlinkFromHead(a, node, binIndex) ==
    LET topBinIndex == Shr(binIndex, TOP_BINS_INDEX_SHIFT)
        leafBinIndex == binIndex % (LEAF_BINS_INDEX_MASK + 1)
        binEmpty == node.binListNext = UNUSED
        leafBits == AndNotBit(a.m_usedBins[topBinIndex], leafBinIndex)
    IN  [a EXCEPT !.m_binIndices = [@ EXCEPT ![binIndex] = node.binListNext],
                  !.m_nodes = IF node.binListNext # UNUSED
                              THEN [@ EXCEPT ![node.binListNext].binListPrev = UNUSED]
                              ELSE @,
                  !.m_usedBins = IF binEmpty
                                 THEN [@ EXCEPT ![topBinIndex] = leafBits]
                                 ELSE @,
                  !.m_usedBinsTop = IF binEmpty /\ leafBits = 0
                                    THEN AndNotBit(@, topBinIndex)
                                    ELSE @]

\* m_freeNodes[++m_freeOffset] = nodeIndex
pushFreeNode(a, nodeIndex) ==
    LET freeOffset1 == Add32(a.m_freeOffset, 1)
        inBounds == freeOffset1 \in DOMAIN a.m_freeNodes
    IN  [a EXCEPT !.m_freeOffset = freeOffset1,
                  !.m_freeNodes = IF inBounds
                                  THEN [@ EXCEPT ![freeOffset1] = nodeIndex]
                                  ELSE @,
                  !.fault = @ \/ ~inBounds]

\* faulty variant: the counter keeps the size of the node taken from its bin
releaseNode_NotCounted(a, nodeIndex, dataSize) == pushFreeNode(a, nodeIndex)

\* the end of removeNodeFromBin: the node goes to the freelist
releaseNode(a, nodeIndex, dataSize) ==
    [pushFreeNode(a, nodeIndex) EXCEPT !.m_freeStorage = Sub32(@, dataSize)]

removeNodeFromBin(a, nodeIndex) ==
    releaseNode(IF a.m_nodes[nodeIndex].binListPrev # UNUSED
                THEN unlinkFromMiddle(a, a.m_nodes[nodeIndex])
                ELSE unlinkFromHead(a, a.m_nodes[nodeIndex],
                         uintToSmallFloatRoundDown(a.m_nodes[nodeIndex].dataSize)),
                nodeIndex, a.m_nodes[nodeIndex].dataSize)

(***************************************************************************)
(* reset(newSize): the object after                                        *)
(***************************************************************************)
\* faulty variant: a reset to the current size reinitialises as well
sameSize_Never(a, newSize) == FALSE

\* the region already has the size asked for
sameSize(a, newSize) == a.m_size = newSize

reset(a, newSize) ==
    IF sameSize(a, newSize)
    THEN a
    ELSE insertNodeIntoBin(
             [a EXCEPT !.m_size = newSize,
                       !.m_freeStorage = 0,
                       !.m_usedBinsTop = 0,
                       !.m_freeOffset = a.m_maxAllocs,
                       !.m_usedBins = [i \in 0..(NUM_TOP_BINS - 1) |-> 0],
                       !.m_binIndices = [i \in 0..(NUM_LEAF_BINS - 1) |-> UNUSED],
                       !.m_nodes = [i \in 0..a.m_maxAllocs |-> Node],
                       !.m_freeNodes = [i \in 0..a.m_maxAllocs |-> a.m_maxAllocs - i]],
             newSize, 0).a

(***************************************************************************)
(* allocate(size): [a |-> the object after, ret |-> the Alloc returned]    *)
(***************************************************************************)
\* faulty variant: the check for a free node identity is left out
outOfAllocations_Never(a) == FALSE

\* "Out of allocations?"
outOfAllocations(a) == a.m_freeOffset = NO_SPACE

\* faulty variant: the size is rounded down to its bin, as insertNodeIntoBin does
minBinIndexOf_RoundDown(size) == uintToSmallFloatRoundDown(size)

\* the minimum bin index that fits the size
minBinIndexOf(size) == uintToSmallFloatRoundUp(size)

\* faulty variant: the node keeps the size of the free node it was carved from
grantedSize_Whole(size, nodeTotalSize) == nodeTotalSize

\* node.dataSize = size
grantedSize(size, nodeTotalSize) == size

\* faulty variant: the remainder starts where the allocation starts
reminderOffset_NoAdvance(dataOffset, size) == dataOffset

\* the offset of the remainder pushed back: node.dataOffset + size
reminderOffset(dataOffset, size) == Add32(dataOffset, size)

\* the bin found: topBinIndex = NO_SPACE stands for "out of space"
Bin(topBinIndex, leafBinIndex) ==
    [topBinIndex |-> topBinIndex, leafBinIndex |-> leafBinIndex]

\* faulty variant: the leaf bins of the minimum top bin are not scanned
scanMinTopBin_Skipped(a, minTopBinIndex, minLeafBinIndex) == NO_SPACE

\* if the top bin exists, scan its leaf bins; this can fail (NO_SPACE)
scanMinTopBin(a, minTopBinIndex, minLeafBinIndex) ==
    IF Bit(a.m_usedBinsTop, minTopBinIndex) = 1
    THEN findLowestSetBitAfter(a.m_usedBins[minTopBinIndex], minLeafBinIndex)
    ELSE NO_SPACE

\* the first leaf bin of top bin topBinIndex, found by the search from + 1
firstLeafOf(a, topBinIndex) ==
    IF topBinIndex = NO_SPACE
    THEN Bin(NO_SPACE, NO_SPACE)
    ELSE Bin(topBinIndex, tzcnt_nonzero(a.m_usedBins[topBinIndex]))

\* if no space was found in the top bin, the top bins are searched from + 1
searchTopBins(a, minTopBinIndex, leafBinIndex) ==
    IF leafBinIndex = NO_SPACE
    THEN firstLeafOf(a, findLowestSetBitAfter(a.m_usedBinsTop, minTopBinIndex + 1))
    ELSE Bin(minTopBinIndex, leafBinIndex)

searchBins(a, minTopBinIndex, minLeafBinIndex) ==
    searchTopBins(a, minTopBinIndex,
                  scanMinTopBin(a, minTopBinIndex, minLeafBinIndex))

findBin(a, minBinIndex) ==
    searchBins(a, Shr(minBinIndex, TOP_BINS_INDEX_SHIFT),
               minBinIndex % (LEAF_BINS_INDEX_MASK + 1))

\* pop the top node of bin binIndex: [a, nodeIndex, nodeTotalSize]
popNode(a, size, topBinIndex, leafBinIndex, binIndex) ==
    LET nodeIndex == a.m_binIndices[binIndex]
        node == a.m_nodes[nodeIndex]
        binEmpty == node.binListNext = UNUSED
        leafBits == AndNotBit(a.m_usedBins[topBinIndex], leafBinIndex)
    IN  [a |-> [a EXCEPT
                  !.m_nodes =
                      IF node.binListNext # UNUSED
                      THEN [@ EXCEPT ![nodeIndex].dataSize =
                                         grantedSize(size, node.dataSize),
                                     ![nodeIndex].used = TRUE,
                                     ![node.binListNext].binListPrev = UNUSED]
                      ELSE [@ EXCEPT ![nodeIndex].dataSize =
                                         grantedSize(size, node.dataSize),
                                     ![nodeIndex].used = TRUE],
                  !.m_binIndices = [@ EXCEPT ![binIndex] = node.binListNext],
                  !.m_freeStorage = Sub32(@, node.dataSize),
                  !.m_usedBins = IF binEmpty
                                 THEN [@ EXCEPT ![topBinIndex] = leafBits]
                                 ELSE @,
                  !.m_usedBinsTop = IF binEmpty /\ leafBits = 0
                                    THEN AndNotBit(@, topBinIndex)
                                    ELSE @],
         nodeIndex |-> nodeIndex,
         nodeTotalSize |-> node.dataSize]

\* link the remainder node behind the allocated node
linkReminder(ins, nodeIndex, oldNext) ==
    [ins.a EXCEPT !.m_nodes =
        IF oldNext # UNUSED
        THEN [@ EXCEPT ![oldNext].neighborPrev = ins.nodeIndex,
                       ![ins.nodeIndex].neighborPrev = nodeIndex,
                       ![ins.nodeIndex].neighborNext = oldNext,
                       ![nodeIndex].neighborNext = ins.nodeIndex]
        ELSE [@ EXCEPT ![ins.nodeIndex].neighborPrev = nodeIndex,
                       ![ins.nodeIndex].neighborNext = oldNext,
                       ![nodeIndex].neighborNext = ins.nodeIndex]]

\* push the remainder back to a lower bin
pushReminder(p, size, reminderSize) ==
    IF reminderSize # 0
    THEN linkReminder(
             insertNodeIntoBin(p.a, reminderSize,
                 reminderOffset(p.a.m_nodes[p.nodeIndex].dataOffset, size)),
             p.nodeIndex, p.a.m_nodes[p.nodeIndex].neighborNext)
    ELSE p.a

\* return Alloc{ node.dataOffset, nodeIndex }
allocated(a, nodeIndex) ==
    [a |-> a,
     ret |-> [offset |-> a.m_nodes[nodeIndex].dataOffset, metadata |-> nodeIndex]]

splitNode(p, size) ==
    allocated(pushReminder(p, size, Sub32(p.nodeTotalSize, size)), p.nodeIndex)

allocateFrom(a, size, bin) ==
    IF bin.topBinIndex = NO_SPACE
    THEN [a |-> a, ret |-> Alloc]                       \* out of space
    ELSE splitNode(popNode(a, size, bin.topBinIndex, bin.leafBinIndex,
                           Shl(bin.topBinIndex, TOP_BINS_INDEX_SHIFT)
                               + bin.leafBinIndex),
                   size)

allocate(a, size) ==
    IF outOfAllocations(a)
    THEN [a |-> a, ret |-> Alloc]                       \* out of allocations
    ELSE allocateFrom(a, size, findBin(a, minBinIndexOf(size)))

(***************************************************************************)
(* free(nodeIndex): the object after                                       *)
(***************************************************************************)
\* faulty variant: the neighbour's size is not added
mergedSize_Dropped(size, neighborSize) == size

\* size += neighbour.dataSize
mergedSize(size, neighborSize) == Add32(size, neighborSize)

\* the locals of free: the object, and the span of the combined node
Merging(a, offset, size) == [a |-> a, offset |-> offset, size |-> size]

\* node.neighborPrev = prevNode.neighborPrev
skipPrev(a, nodeIndex, prevIndex) ==
    [a EXCEPT !.m_nodes[nodeIndex].neighborPrev = a.m_nodes[prevIndex].neighborPrev]

\* faulty variant: the node keeps its link to the neighbour merged into it
skipNext_Kept(a, nodeIndex, nextIndex) == a

\* node.neighborNext = nextNode.neighborNext
skipNext(a, nodeIndex, nextIndex) ==
    [a EXCEPT !.m_nodes[nodeIndex].neighborNext = a.m_nodes[nextIndex].neighborNext]

\* merge with the previous neighbour if it is free
mergePrev(a, nodeIndex, node) ==
    IF node.neighborPrev # UNUSED /\ ~a.m_nodes[node.neighborPrev].used
    THEN Merging(skipPrev(removeNodeFromBin(a, node.neighborPrev),
                          nodeIndex, node.neighborPrev),
                 a.m_nodes[node.neighborPrev].dataOffset,
                 mergedSize(node.dataSize, a.m_nodes[node.neighborPrev].dataSize))
    ELSE Merging(a, node.dataOffset, node.dataSize)

\* faulty variant: a free next neighbour is left as it is
mergeNext_Never(m, nodeIndex, node) == m

\* merge with the next neighbour if it is free
mergeNext(m, nodeIndex, node) ==
    IF node.neighborNext # UNUSED /\ ~m.a.m_nodes[node.neighborNext].used
    THEN Merging(skipNext(removeNodeFromBin(m.a, node.neighborNext),
                          nodeIndex, node.neighborNext),
                 m.offset,
                 mergedSize(m.size, m.a.m_nodes[node.neighborNext].dataSize))
    ELSE m

\* connect the neighbours with the combined node
connectNeighbors(ins, neighborNext, neighborPrev) ==
    [ins.a EXCEPT !.m_nodes =
        IF neighborNext # UNUSED /\ neighborPrev # UNUSED
        THEN [@ EXCEPT ![ins.nodeIndex].neighborNext = neighborNext,
                       ![neighborNext].neighborPrev = ins.nodeIndex,
                       ![ins.nodeIndex].neighborPrev = neighborPrev,
                       ![neighborPrev].neighborNext = ins.nodeIndex]
        ELSE IF neighborNext # UNUSED
        THEN [@ EXCEPT ![ins.nodeIndex].neighborNext = neighborNext,
                       ![neighborNext].neighborPrev = ins.nodeIndex]
        ELSE IF neighborPrev # UNUSED
        THEN [@ EXCEPT ![ins.nodeIndex].neighborPrev = neighborPrev,
                       ![neighborPrev].neighborNext = ins.nodeIndex]
        ELSE @]

\* the node goes to the freelist and the combined free node to a bin
insertCombined(m, nodeIndex) ==
    connectNeighbors(insertNodeIntoBin(pushFreeNode(m.a, nodeIndex), m.size, m.offset),
                     m.a.m_nodes[nodeIndex].neighborNext,
                     m.a.m_nodes[nodeIndex].neighborPrev)

\* the second merge reads the node as the first merge left it
mergeNeighbors(m, nodeIndex) ==
    insertCombined(mergeNext(m, nodeIndex, m.a.m_nodes[nodeIndex]), nodeIndex)

free(a, nodeIndex) ==
    IF nodeIndex = NO_SPACE \/ IsNull(a.m_nodes)
    THEN a
    ELSE mergeNeighbors(mergePrev(a, nodeIndex, a.m_nodes[nodeIndex]), nodeIndex)

(***************************************************************************)
(* allocationSize(allocation) and storageReport()                          *)
(***************************************************************************)
allocationSize(a, allocation) ==
    IF allocation.metadata = NO_SPACE THEN 0
    ELSE IF IsNull(a.m_nodes) THEN 0
    ELSE a.m_nodes[allocation.metadata].dataSize

\* faulty variant: the report is zero when no node identity is left
reportsZero_WhenEmpty(a) == a.m_freeOffset = NO_SPACE

\* "Out of allocations? -> Zero free space"
reportsZero(a) == a.m_freeOffset = 0

\* faulty variant: the bitmaps are scanned for the lowest set bit
largestBin_Lowest(a) ==
    LET topBinIndex == tzcnt_nonzero(a.m_usedBinsTop)
        leafBinIndex == tzcnt_nonzero(a.m_usedBins[topBinIndex])
    IN  Shl(topBinIndex, TOP_BINS_INDEX_SHIFT) + leafBinIndex

\* the bin whose size is reported as the largest free region
largestBin(a) ==
    LET topBinIndex == 31 - lzcnt_nonzero(a.m_usedBinsTop)
        leafBinIndex == 31 - lzcnt_nonzero(a.m_usedBins[topBinIndex])
    IN  Shl(topBinIndex, TOP_BINS_INDEX_SHIFT) + leafBinIndex

storageReport(a) ==
    IF reportsZero(a)
    THEN StorageReport
    ELSE IF a.m_usedBinsTop # 0
    THEN [totalFreeSpace |-> a.m_freeStorage,
          largestFreeRegion |-> smallFloatToUint(largestBin(a))]
    ELSE [StorageReport EXCEPT !.totalFreeSpace = a.m_freeStorage]

(***************************************************************************)
(* The calls a client makes.                                               *)
(***************************************************************************)
\* OffsetAllocator allocator(maxAllocs);
Constructed(maxAllocs, junk) ==
    LET a == Construct(maxAllocs, junk)
    IN  /\ m_size = a.m_size
        /\ m_maxAllocs = a.m_maxAllocs
        /\ m_freeStorage = a.m_freeStorage
        /\ m_usedBinsTop = a.m_usedBinsTop
        /\ m_usedBins = a.m_usedBins
        /\ m_binIndices = a.m_binIndices
        /\ m_nodes = a.m_nodes
        /\ m_freeNodes = a.m_freeNodes
        /\ m_freeOffset = a.m_freeOffset
        /\ fault = a.fault
        /\ handles = {}
        /\ ret = Alloc
        /\ hist = <<>>

\* allocator.reset(newSize).  An effective reset reallocates the arena: every
\* Alloc given out before is invalid from then on.
Reset(newSize) ==
    /\ Install(reset(Self, newSize))
    /\ handles' = IF m_size # newSize THEN {} ELSE handles

\* allocate(size) has returned r.ret and left the object r.a
Returned(size, r) ==
    /\ Install(r.a)
    /\ handles' = IF r.ret = Alloc THEN handles
                  ELSE handles \cup {[offset |-> r.ret.offset,
                                      metadata |-> r.ret.metadata,
                                      size |-> size]}

\* allocator.allocate(size), on an allocator that has been reset
Allocate(size) ==
    /\ ~IsNull(m_nodes)
    /\ Returned(size, allocate(Self, size))

\* allocator.free(h), of an allocation that is outstanding
Free(h) ==
    /\ h \in handles
    /\ Install(free(Self, h.metadata))
    /\ handles' = handles \ {h}

(***************************************************************************)
(* Specification Spec: any constructor argument up to MaxAllocsBound, then *)
(* any sequence of calls.  Regions are empty, small or MaxRegion long;     *)
(* requests are for one unit or for about the whole region.                *)
(***************************************************************************)
\* m_usedBinsTop, m_usedBins and m_binIndices have no initialiser: until the
\* first effective reset they hold whatever the storage held
Indeterminate == {[top |-> 0, leaf |-> 0, head |-> UNUSED],
                  [top |-> 1, leaf |-> 1, head |-> 0]}

RegionSizes == {0, 3, MaxRegion}

RequestSizes == {n \in {1, m_size - 1, m_size, m_size + 1} : n >= 1}

Init == \E maxAllocs \in 0..MaxAllocsBound, junk \in Indeterminate :
            Constructed(maxAllocs, junk)

Next ==
    \/ \E newSize \in RegionSizes : Reset(newSize) /\ UNCHANGED <<ret, hist>>
    \/ \E size \in RequestSizes : Allocate(size) /\ UNCHANGED <<ret, hist>>
    \/ \E h \in handles : Free(h) /\ UNCHANGED <<ret, hist>>

Spec == Init /\ [][Next]_vars

(***************************************************************************)
(* Specification SpecScn: the calls since the last effective reset are     *)
(* recorded in hist, at most MaxSteps of them.  Besides the allocators of  *)
(* Spec (with at least one allocation) it runs the allocator of 128        *)
(* allocations over a region of 1024 units with requests for 50, 100, 800, *)
(* 900 and 974 units, and the other allocators are also asked for nothing  *)
(* (allocate(0)).                                                          *)
(***************************************************************************)
Call(op, arg, ok) == [op |-> op, arg |-> arg, ok |-> ok]

ScnRegionSizes == IF m_maxAllocs = 128 THEN {1024} ELSE RegionSizes

ScnRequestSizes == IF m_maxAllocs = 128 THEN {50, 100, 800, 900, 974}
                   ELSE RequestSizes \cup {0}

InitScn == \E maxAllocs \in (1..MaxAllocsBound) \cup {128}, junk \in Indeterminate :
               Constructed(maxAllocs, junk)

ResetScn(newSize) ==
    /\ Reset(newSize)
    /\ ret' = Alloc
    /\ hist' = IF m_size # newSize THEN <<Call("reset", newSize, TRUE)>>
               ELSE Append(hist, Call("reset", newSize, FALSE))

AllocateScn(size) ==
    /\ Allocate(size)
    /\ ret' = allocate(Self, size).ret
    /\ hist' = Append(hist, Call("allocate", size, ret' # Alloc))

FreeScn(h) ==
    /\ Free(h)
    /\ ret' = Alloc
    /\ hist' = Append(hist, Call("free", h.offset, TRUE))

NextScn ==
    /\ Len(hist) < MaxSteps
    /\ \/ \E newSize \in ScnRegionSizes : ResetScn(newSize)
       \/ \E size \in ScnRequestSizes : AllocateScn(size)
       \/ \E h \in handles : FreeScn(h)

SpecScn == InitScn /\ [][NextScn]_vars

(***************************************************************************)
(* Specification SpecCodec: the size-class codec alone.  A size is drawn,  *)
(* converted to a class by one of the two roundings, and the class is      *)
(* converted back.  ret starts as the size and then holds the value        *)
(* returned by the last call; hist records the calls with their arguments. *)
(* The sizes are the small ones and, for every mantissa, sizes at and      *)
(* next to class sizes of exponents 11, 28 and 29, up to 0xFFFFFFFF.       *)
(***************************************************************************)
CodecInputs ==
    (0..MaxInput) \cup
    {Add32(Shl(mantissa, shift), d) :
         mantissa \in SMALL_FLT_MANTISSA_VALUE..(2 * SMALL_FLT_MANTISSA_VALUE),
         shift \in {10, 27, 28}, d \in {-1, 0, 1}}

InitCodec ==
    /\ \E junk \in {j \in Indeterminate : j.top = 0} :
           /\ m_size = 0
           /\ m_maxAllocs = 0
           /\ m_freeStorage = 0
           /\ m_usedBinsTop = Construct(0, junk).m_usedBinsTop
           /\ m_usedBins = Construct(0, junk).m_usedBins
           /\ m_binIndices = Construct(0, junk).m_binIndices
           /\ m_nodes = NullPtr
           /\ m_freeNodes = NullPtr
           /\ m_freeOffset = 0
           /\ fault = FALSE
    /\ handles = {}
    /\ ret \in CodecInputs
    /\ hist = <<>>

RoundUp ==
    /\ hist = <<>>
    /\ ret' = uintToSmallFloatRoundUp(ret)
    /\ hist' = <<Call("uintToSmallFloatRoundUp", ret, TRUE)>>
    /\ UNCHANGED <<allocVars, handles>>

RoundDown ==
    /\ hist = <<>>
    /\ ret' = uintToSmallFloatRoundDown(ret)
    /\ hist' = <<Call("uintToSmallFloatRoundDown", ret, TRUE)>>
    /\ UNCHANGED <<allocVars, handles>>

ToUint ==
    /\ Len(hist) = 1
    /\ ret' = smallFloatToUint(ret)
    /\ hist' = Append(hist, Call("smallFloatToUint", ret, TRUE))
    /\ UNCHANGED <<allocVars, handles>>

NextCodec == RoundUp \/ RoundDown \/ ToUint

SpecCodec == InitCodec /\ [][NextCodec]_vars

(***************************************************************************)
(* What the claims speak of.                                               *)
(***************************************************************************)
HasBeenReset == ~IsNull(m_nodes)

\* the nodes of bin c's list, head first (at most fuel of them)
RECURSIVE ListFrom(_, _)
ListFrom(i, fuel) ==
    IF i = UNUSED \/ fuel = 0 \/ i \notin DOMAIN m_nodes THEN <<>>
    ELSE <<i>> \o ListFrom(m_nodes[i].binListNext, fuel - 1)

BinList(c) == ListFrom(m_binIndices[c], m_maxAllocs + 1)

Range(q) == {q[j] : j \in 1..Len(q)}

\* free nodes: the nodes in bin lists;  used nodes: the nodes marked used
NonEmptyBins == {c \in 0..(NUM_LEAF_BINS - 1) : m_binIndices[c] # UNUSED}

FreeNodes == UNION {Range(BinList(c)) : c \in NonEmptyBins}

UsedNodes == {i \in DOMAIN m_nodes : m_nodes[i].used}

LiveNodes == FreeNodes \cup UsedNodes

\* the units [dataOffset, dataOffset + dataSize) of node i
Span(i) == {u \in 0..MaxRegion :
                m_nodes[i].dataOffset <= u
                /\ u < m_nodes[i].dataOffset + m_nodes[i].dataSize}

\* the units [offset, offset + size) of an outstanding allocation
Units(h) == {u \in 0..(2 * MaxRegion) : h.offset <= u /\ u < h.offset + h.size}

RECURSIVE SumSizes(_)
SumSizes(S) == IF S = {} THEN 0
               ELSE LET i == CHOOSE x \in S : TRUE
                    IN  m_nodes[i].dataSize + SumSizes(S \ {i})

\* every size a client is taken to ask for, whatever the region
AllSizes == 0..(MaxRegion + 1)

(***************************************************************************)
(* C1: the ranges [offset, offset + size) of the outstanding allocations   *)
(* are pairwise disjoint and each lies inside [0, m_size).                 *)
(***************************************************************************)
C1_OutstandingDisjoint ==
    \A h \in handles :
        /\ 0 <= h.offset
        /\ h.offset + h.size <= m_size
        /\ \A g \in handles \ {h} : Units(h) \cap Units(g) = {}

\* two allocations are outstanding, one behind the other, and the rest of the
\* region is free
C1_Witness ==
    /\ Cardinality(handles) = 2
    /\ \E h \in handles : h.offset > 0
    /\ FreeNodes # {}

(***************************************************************************)
(* C2: after reset, the spans of the live nodes (free nodes in bin lists   *)
(* and used nodes) cover [0, m_size) with no gap and no overlap, and their *)
(* sizes sum to m_size.                                                    *)
(***************************************************************************)
C2_Tiling ==
    HasBeenReset =>
        LET freeSet == FreeNodes
            usedSet == UsedNodes
        IN  /\ \A u \in 0..(m_size - 1) :
                   Cardinality({i \in freeSet \cup usedSet : u \in Span(i)}) = 1
            /\ \A i \in freeSet \cup usedSet :
                   0 <= m_nodes[i].dataOffset
                   /\ m_nodes[i].dataOffset + m_nodes[i].dataSize <= m_size
            /\ freeSet \cap usedSet = {}
            /\ SumSizes(freeSet) + SumSizes(usedSet) = m_size

\* a used node lies between two free nodes: the allocation before it was freed
C2_Witness ==
    /\ HasBeenReset
    /\ Cardinality(UsedNodes) >= 1
    /\ Cardinality(FreeNodes) >= 2

\* the node identities on the free-index stack
StackNodes == {m_freeNodes[j] : j \in 0..m_freeOffset}

\* the sizes of the free nodes
FreeSizes == {m_nodes[f].dataSize : f \in FreeNodes}

(***************************************************************************)
(* C3, as claimed: allocate(size) returns the sentinel if and only if no   *)
(* node identity is left or no free node of size >= size exists.           *)
(***************************************************************************)
C3_SentinelIffNoSpan ==
    HasBeenReset =>
        LET freeSizes == FreeSizes
        IN  \A size \in AllSizes :
                (allocate(Self, size).ret = Alloc)
                    <=> (StackNodes = {} \/ ~\E n \in freeSizes : n >= size)

(***************************************************************************)
(* C3, amended: allocate(size) returns the sentinel if and only if no node *)
(* identity is left or no bin of class >= quantizeRoundUp(size) is         *)
(* non-empty; a free node of size >= size is necessary for success, not    *)
(* sufficient.                                                             *)
(***************************************************************************)
C3_SentinelIffNoBin ==
    HasBeenReset =>
        LET freeSizes == FreeSizes
            bins == NonEmptyBins
        IN  \A size \in AllSizes :
                LET r == allocate(Self, size)
                IN  /\ (r.ret = Alloc)
                        <=> \/ StackNodes = {}
                            \/ ~\E c \in bins : c >= uintToSmallFloatRoundUp(size)
                    /\ r.ret # Alloc => \E n \in freeSizes : n >= size

\* a node identity is left and a free node is as long as the region, and a
\* request for that much is refused
C3_Witness ==
    /\ HasBeenReset
    /\ StackNodes # {}
    /\ m_size \in FreeSizes
    /\ m_size \in RequestSizes
    /\ allocate(Self, m_size).ret = Alloc

(***************************************************************************)
(* C4: allocationSize of a handle that allocate(n) returned is n exactly,  *)
(* from the call that returned it and for as long as it is outstanding.    *)
(***************************************************************************)
C4_Exactness ==
    /\ \A h \in handles :
           allocationSize(Self, [offset |-> h.offset, metadata |-> h.metadata])
               = h.size
    /\ HasBeenReset =>
           \A n \in RequestSizes :
               LET r == allocate(Self, n)
               IN  r.ret # Alloc => allocationSize(r.a, r.ret) = n

\* an outstanding allocation of more than one unit was carved from a longer
\* free node: the remainder follows it
C4_Witness ==
    \E h \in handles :
        /\ h.size > 1
        /\ m_nodes[h.metadata].neighborNext \in FreeNodes

(***************************************************************************)
(* C5: the outstanding allocations never number more than maxAllocs, and   *)
(* when maxAllocs are outstanding the next allocate returns the sentinel,  *)
(* whatever space is free.                                                 *)
(***************************************************************************)
C5_Exhaustion ==
    /\ Cardinality(handles) <= m_maxAllocs
    /\ (HasBeenReset /\ Cardinality(handles) = m_maxAllocs) =>
           \A size \in AllSizes : allocate(Self, size).ret = Alloc

\* maxAllocs allocations are outstanding, a free node in a bin would fit a
\* request for 1, and that request is refused
C5_Witness ==
    /\ HasBeenReset
    /\ m_maxAllocs >= 1
    /\ Cardinality(handles) = m_maxAllocs
    /\ \E c \in NonEmptyBins : c >= uintToSmallFloatRoundUp(1)
    /\ allocate(Self, 1).ret = Alloc

(***************************************************************************)
(* C6: on a freshly reset allocator of size S, after two allocations and   *)
(* the release of both, in either order, storageReport().totalFreeSpace is *)
(* S and there is exactly one free node, [0, S), and no used node.         *)
(***************************************************************************)
IsCall(j, op, ok) == j <= Len(hist) /\ hist[j].op = op /\ hist[j].ok = ok

TwoAllocatedBothFreed ==
    /\ Len(hist) = 5
    /\ IsCall(1, "reset", TRUE)
    /\ IsCall(2, "allocate", TRUE)
    /\ IsCall(3, "allocate", TRUE)
    /\ IsCall(4, "free", TRUE)
    /\ IsCall(5, "free", TRUE)

C6_Coalescing ==
    TwoAllocatedBothFreed =>
        /\ hist[2].arg + hist[3].arg <= m_size
        /\ storageReport(Self).totalFreeSpace = m_size
        /\ Cardinality(FreeNodes) = 1
        /\ \A f \in FreeNodes : m_nodes[f].dataOffset = 0 /\ m_nodes[f].dataSize = m_size
        /\ UsedNodes = {}
        /\ handles = {}

\* the second allocation was released first, and a remainder was free as well
C6_Witness ==
    /\ TwoAllocatedBothFreed
    /\ hist[4].arg > 0
    /\ hist[2].arg + hist[3].arg < m_size

(***************************************************************************)
(* C7, as claimed: reset(S), h = allocate(k), free(h) leaves               *)
(* storageReport() = {S, classIndexToSize(quantizeRoundDown(S))}.          *)
(***************************************************************************)
C7_RoundTrip ==
    (/\ Len(hist) = 3
     /\ IsCall(1, "reset", TRUE)
     /\ IsCall(2, "allocate", TRUE)
     /\ IsCall(3, "free", TRUE))
        => storageReport(Self) =
               [totalFreeSpace |-> m_size,
                largestFreeRegion |->
                    smallFloatToUint(uintToSmallFloatRoundDown(m_size))]

HighestNonEmptyBin == CHOOSE c \in NonEmptyBins : \A d \in NonEmptyBins : d <= c

Fragmented ==
    /\ m_maxAllocs = 128
    /\ Len(hist) >= 4
    /\ hist[1] = Call("reset", 1024, TRUE)
    /\ hist[2] = Call("allocate", 100, TRUE)
    /\ hist[3] = Call("allocate", 50, TRUE)
    /\ hist[4] = Call("free", 0, TRUE)

C10_Scenario ==
    /\ (Fragmented /\ Len(hist) = 4) =>
           /\ allocate(Self, 974).ret = Alloc
           /\ allocate(Self, 900).ret # Alloc
           /\ allocate(Self, 900).ret.offset = 150
    /\ (Fragmented /\ Len(hist) = 5 /\ hist[5].op = "allocate") =>
           /\ hist[5].arg = 974 => ret = Alloc
           /\ hist[5].arg = 900 => ret # Alloc /\ ret.offset = 150

(***************************************************************************)
(* C10, amended: in that state the free regions are [0, 100) and           *)
(* [150, 1024), of 100 and 874 units: allocate(974) and allocate(900) both *)
(* return the sentinel, and allocate(800) returns a handle, that of the    *)
(* trailing free region at offset 150.                                     *)
(***************************************************************************)
C10_ScenarioTrailing ==
    /\ (Fragmented /\ Len(hist) = 4) =>
           /\ {[o |-> m_nodes[f].dataOffset, s |-> m_nodes[f].dataSize] :
                   f \in FreeNodes} = {[o |-> 0, s |-> 100], [o |-> 150, s |-> 874]}
           /\ allocate(Self, 974).ret = Alloc
           /\ allocate(Self, 900).ret = Alloc
           /\ allocate(Self, 800).ret # Alloc
           /\ allocate(Self, 800).ret.offset = 150
    /\ (Fragmented /\ Len(hist) = 5 /\ hist[5].op = "allocate") =>
           /\ hist[5].arg \in {900, 974} => ret = Alloc
           /\ hist[5].arg = 800 => ret # Alloc /\ ret.offset = 150

\* allocate(800) has just been called in that state and took the region at
\* 150, where allocate(900) and allocate(974) are refused
C10_Witness ==
    /\ Fragmented
    /\ Len(hist) = 5
    /\ hist[5] = Call("allocate", 800, TRUE)
    /\ ret.offset = 150

\* no call since the reset was a free
NoFreeYet == IsCall(1, "reset", TRUE) /\ \A j \in 1..Len(hist) : hist[j].op # "free"

\* the sum of the sizes granted by the calls hist[1..n]
RECURSIVE GrantedBefore(_)
GrantedBefore(n) ==
    IF n = 0 THEN 0
    ELSE GrantedBefore(n - 1)
             + (IF hist[n].op = "allocate" /\ hist[n].ok THEN hist[n].arg ELSE 0)

(***************************************************************************)
(* C11: on a freshly reset allocator, successful allocate calls with no    *)
(* free between them return offsets equal to the running sum of the sizes  *)
(* requested before: 0, then the first size, and so on; and after          *)
(* reset(1024), allocate(100), allocate(50) and the release of the first,  *)
(* totalFreeSpace is 974.                                                  *)
(***************************************************************************)
C11_ContiguousPlacement ==
    /\ (NoFreeYet /\ IsCall(Len(hist), "allocate", TRUE)) =>
           ret.offset = GrantedBefore(Len(hist) - 1)
    /\ NoFreeYet =>
           \A h \in handles :
               h.offset = SumSizes({g.metadata : g \in {g \in handles : g.offset < h.offset}})
    /\ (Fragmented /\ Len(hist) = 4) => storageReport(Self).totalFreeSpace = 974

\* the third successful allocate in a row was placed behind the first two
C11_Witness ==
    /\ Len(hist) = 4
    /\ NoFreeYet
    /\ IsCall(2, "allocate", TRUE)
    /\ IsCall(3, "allocate", TRUE)
    /\ IsCall(4, "allocate", TRUE)
    /\ ret.offset = hist[2].arg + hist[3].arg

(***************************************************************************)
(* C12: for every 32-bit unsigned n, in the code's 32-bit arithmetic, the  *)
(* size of the class n is rounded up to is at least n, and the size of the *)
(* class n is rounded down to is at most n.                                *)
(***************************************************************************)
C12_QuantizationBounds ==
    (Len(hist) = 2 /\ hist[2].op = "smallFloatToUint") =>
        /\ hist[1].op = "uintToSmallFloatRoundUp" => ~Less32(ret, hist[1].arg)
        /\ hist[1].op = "uintToSmallFloatRoundDown" => ~Less32(hist[1].arg, ret)

(***************************************************************************)
(* C13: reset(newSize) called with newSize equal to the current region     *)
(* size changes nothing: the outstanding allocations, the nodes, the bin   *)
(* directory, the bitmaps, the free-index stack and the free-storage       *)
(* counter are what they were before the call.                             *)
(***************************************************************************)
C13_SameSizeResetIsNoOp ==
    [][hist' = Append(hist, Call("reset", m_size, FALSE)) =>
           UNCHANGED <<allocVars, handles>>]_vars

\* a reset to the current size was called with an allocation outstanding
C13_Witness ==
    /\ HasBeenReset
    /\ IsCall(Len(hist), "reset", FALSE)
    /\ hist[Len(hist)].arg = m_size
    /\ handles # {}
    /\ FreeNodes # {}

(***************************************************************************)
(* C14: in every state reached by allocate and free after a reset, the     *)
(* left and the right neighbour of a free node, where it has one, are      *)
(* used nodes; and when no allocation is outstanding, one free node        *)
(* spanning [0, m_size) is all that is left.                               *)
(***************************************************************************)
C14_NoAdjacentFreeNodes ==
    HasBeenReset =>
        LET freeSet == FreeNodes
        IN  /\ \A f \in freeSet :
                   /\ m_nodes[f].neighborPrev # UNUSED =>
                          m_nodes[m_nodes[f].neighborPrev].used
                   /\ m_nodes[f].neighborNext # UNUSED =>
                          m_nodes[m_nodes[f].neighborNext].used
            /\ handles = {} =>
                   /\ Cardinality(freeSet) = 1
                   /\ \A f \in freeSet : /\ m_nodes[f].dataOffset = 0
                                         /\ m_nodes[f].dataSize = m_size
                                         /\ m_nodes[f].neighborPrev = UNUSED
                                         /\ m_nodes[f].neighborNext = UNUSED

\* two free nodes are kept apart by the used node between them
C14_Witness ==
    /\ HasBeenReset
    /\ \E f \in FreeNodes :
           /\ m_nodes[f].neighborNext # UNUSED
           /\ m_nodes[m_nodes[f].neighborNext].used
           /\ m_nodes[m_nodes[f].neighborNext].neighborNext \in FreeNodes

\* n's links lead to live nodes that touch n, and lead back to n
LinksTouch(n, live) ==
    /\ m_nodes[n].neighborNext # UNUSED =>
           /\ m_nodes[n].neighborNext \in live
           /\ m_nodes[m_nodes[n].neighborNext].dataOffset
                  = m_nodes[n].dataOffset + m_nodes[n].dataSize
           /\ m_nodes[m_nodes[n].neighborNext].neighborPrev = n
    /\ m_nodes[n].neighborPrev # UNUSED =>
           /\ m_nodes[n].neighborPrev \in live
           /\ m_nodes[m_nodes[n].neighborPrev].dataOffset
                  + m_nodes[m_nodes[n].neighborPrev].dataSize = m_nodes[n].dataOffset
           /\ m_nodes[m_nodes[n].neighborPrev].neighborNext = n

(***************************************************************************)
(* C15, as claimed: for every live node n, n.neighborNext is NONE iff      *)
(* n.offset + n.size = m_size, otherwise it is the live node whose offset  *)
(* is n.offset + n.size; n.neighborPrev is NONE iff n.offset = 0,          *)
(* otherwise it is the live node m with m.offset + m.size = n.offset; and  *)
(* the two links are mutually inverse.                                     *)
(***************************************************************************)
C15_NeighborLinks ==
    HasBeenReset =>
        LET live == LiveNodes
        IN  \A n \in live :
                /\ LinksTouch(n, live)
                /\ (m_nodes[n].neighborNext = UNUSED)
                       <=> (m_nodes[n].dataOffset + m_nodes[n].dataSize = m_size)
                /\ (m_nodes[n].neighborPrev = UNUSED) <=> (m_nodes[n].dataOffset = 0)

(***************************************************************************)
(* C15, amended: as claimed, except that a node at offset 0 has a left     *)
(* neighbour when that neighbour is a zero-size node: n.neighborPrev is    *)
(* NONE only if n.offset = 0, and the first node of the chain is at        *)
(* offset 0.                                                               *)
(***************************************************************************)
C15_NeighborLinksBehindEmptyNodes ==
    HasBeenReset =>
        LET live == LiveNodes
        IN  \A n \in live :
                /\ LinksTouch(n, live)
                /\ (m_nodes[n].neighborNext = UNUSED)
                       <=> (m_nodes[n].dataOffset + m_nodes[n].dataSize = m_size)
                /\ (m_nodes[n].neighborPrev = UNUSED) => (m_nodes[n].dataOffset = 0)

\* a node at offset 0 lies behind the zero-size node of an allocate(0), and a
\* third node lies behind it
C15_Witness ==
    /\ HasBeenReset
    /\ \E n \in LiveNodes :
           /\ m_nodes[n].dataOffset = 0
           /\ m_nodes[n].neighborPrev # UNUSED
           /\ m_nodes[m_nodes[n].neighborPrev].dataSize = 0
           /\ m_nodes[n].neighborNext # UNUSED

\* the two bitmap levels say what the bin directory says
BitmapMatchesBins ==
    /\ \A c \in 0..(NUM_LEAF_BINS - 1) :
           (Bit(m_usedBins[Shr(c, TOP_BINS_INDEX_SHIFT)],
                c % (LEAF_BINS_INDEX_MASK + 1)) = 1)
               <=> (m_binIndices[c] # UNUSED)
    /\ \A t \in 0..(NUM_TOP_BINS - 1) :
           (Bit(m_usedBinsTop, t) = 1) <=> (m_usedBins[t] # 0)

(***************************************************************************)
(* C16: after every reset, allocate and free, the leaf bit of each of the  *)
(* 256 classes is set iff m_binIndices[class] is not UNUSED, and the top   *)
(* bit of each of the 32 groups is set iff a leaf bit of the group is set. *)
(***************************************************************************)
C16_BitmapInvariant == (hist # <<>>) => BitmapMatchesBins

(***************************************************************************)
(* C17: after every completed reset, allocate and free, m_freeStorage is   *)
(* the sum of the sizes of the nodes in the bin lists, and taking any of   *)
(* them from its bin leaves the counter at that sum less the node's size:  *)
(* the unsigned counter does not wrap.                                     *)
(***************************************************************************)
C17_FreeStorageCounter ==
    LET freeSet == FreeNodes
    IN  /\ m_freeStorage = SumSizes(freeSet)
        /\ 0 <= m_freeStorage /\ m_freeStorage <= m_size
        /\ \A f \in freeSet :
               /\ m_nodes[f].dataSize <= m_freeStorage
               /\ removeNodeFromBin(Self, f).m_freeStorage
                      = m_freeStorage - m_nodes[f].dataSize

\* two free nodes of different sizes are counted, beside a used node
C17_Witness ==
    /\ HasBeenReset
    /\ Cardinality(FreeSizes) = 2
    /\ UsedNodes # {}
    /\ m_freeStorage > 0
    /\ m_freeStorage < m_size

\* the slots m_freeNodes[0..m_freeOffset] that exist
StackSlots == {j \in 0..m_freeOffset : j \in DOMAIN m_freeNodes}

\* the node indices are shared out between the used nodes, the bin lists
\* and the free-index stack
StackDiscipline ==
    LET freeSet == FreeNodes
        usedSet == UsedNodes
        bins == NonEmptyBins
        onStack == {m_freeNodes[j] : j \in StackSlots}
    IN  /\ freeSet \cup usedSet \cup onStack = 0..m_maxAllocs
        /\ freeSet \cap usedSet = {}
        /\ (freeSet \cup usedSet) \cap onStack = {}
        \* no index is twice on the stack, none is in two bin lists
        /\ Cardinality(onStack) = m_freeOffset + 1
        /\ \A c \in bins : \A d \in bins \ {c} :
               Range(BinList(c)) \cap Range(BinList(d)) = {}
        /\ \A c \in bins : Cardinality(Range(BinList(c))) = Len(BinList(c))
        /\ m_freeOffset \in {NO_SPACE} \cup (0..m_maxAllocs)
        /\ ~fault

(***************************************************************************)
(* C18: after every completed operation, each of the m_maxAllocs + 1 node  *)
(* indices is either live (a used node, or a free node in exactly one bin  *)
(* list) or exactly once in m_freeNodes[0..m_freeOffset], never both and   *)
(* never neither; and the stack is never popped when empty nor pushed      *)
(* beyond index m_maxAllocs.                                               *)
(***************************************************************************)
C18_StackInvariant == (hist # <<>>) => StackDiscipline

\* the non-empty classes, by the bin directory, that fit a request of size
FittingBins(size) == {c \in NonEmptyBins : c >= uintToSmallFloatRoundUp(size)}

\* allocate(size), returning r after the search found bin found, has taken
\* the head node of class c
TakesHeadOf(c, size, found, r) ==
    /\ found = Bin(c \div BINS_PER_LEAF, c % BINS_PER_LEAF)
    /\ r.ret.metadata = m_binIndices[c]
    /\ r.ret.offset = m_nodes[m_binIndices[c]].dataOffset
    /\ m_nodes[m_binIndices[c]].dataSize >= size
    /\ r.a.m_nodes[m_binIndices[c]].dataSize = size
    /\ r.a.m_nodes[m_binIndices[c]].used

\* the search and the linear scan agree on a request of size
SearchAgrees(size, fitting, found, r) ==
    /\ (fitting = {}) <=> (r.ret = Alloc)
    /\ (fitting = {}) <=> (found.topBinIndex = NO_SPACE)
    /\ \A c \in fitting :
           (\A d \in fitting : c <= d) => TakesHeadOf(c, size, found, r)

(***************************************************************************)
(* C19: when a node identity is available, allocate(size) takes the head   *)
(* node of the lowest non-empty class c with c >= the class size is        *)
(* rounded up to (the two-level bitmap scan finds the class a linear scan  *)
(* of the 256 bin-directory entries finds) and returns the sentinel iff    *)
(* there is no such class; the node taken is at least size long, so the    *)
(* remainder does not underflow.                                           *)
(***************************************************************************)
C19_BinSearch ==
    (HasBeenReset /\ m_freeOffset # NO_SPACE) =>
        LET bins == NonEmptyBins
        IN  \A size \in ScnRequestSizes :
                SearchAgrees(size,
                             {c \in bins : c >= uintToSmallFloatRoundUp(size)},
                             findBin(Self, uintToSmallFloatRoundUp(size)),
                             allocate(Self, size))

\* two classes fit a request, and the head node of the lower one is taken
C19_Witness ==
    /\ HasBeenReset
    /\ m_freeOffset # NO_SPACE
    /\ \E size \in ScnRequestSizes :
           \E c \in FittingBins(size) : \E d \in FittingBins(size) :
               /\ c < d
               /\ allocate(Self, size).ret.metadata = m_binIndices[c]

(***************************************************************************)
(* C20: storageReport returns the zero report for being out of             *)
(* allocations in exactly the states in which allocate refuses every       *)
(* request for being out of node identities; and where a node identity is  *)
(* left on the stack and free nodes exist, storageReport reports non-zero  *)
(* free space.                                                             *)
(***************************************************************************)
C20_ReportAgreesWithAllocate ==
    HasBeenReset =>
        /\ reportsZero(Self) <=> outOfAllocations(Self)
        /\ outOfAllocations(Self) <=> (StackNodes = {})
        /\ outOfAllocations(Self) =>
               \A size \in AllSizes : allocate(Self, size).ret = Alloc
        /\ (StackNodes # {} /\ \E n \in FreeSizes : n > 0) =>
               storageReport(Self).totalFreeSpace # 0

====
